---- MODULE Spec2Model ----
(***************************************************************************)
(* Vitals-to-alert pipeline of the Patient Monitoring App server           *)
(* (superbase/functions/server/index.tsx, embedded in TECHNICAL_GUIDE.md). *)
(*                                                                         *)
(* Modelling conventions                                                   *)
(*  - the key-value store is a function from keys to stored JSON values;   *)
(*    a key `vitals:<p>:<ms>` is the record [kind, pid, t, type] with      *)
(*    type = "" and `alert:<p>:<ms>-<type>` the same record with its type; *)
(*  - instants are integer milliseconds; toISOString() of an instant is    *)
(*    that instant (both carry millisecond precision, and                  *)
(*    new Date(iso).getTime() gives the millisecond back);                 *)
(*  - temperatures are integers in tenths of a degree Celsius;             *)
(*  - a handler is cut at its awaits on the store: every kv.set / kv.get   *)
(*    is one step, and steps of different requests interleave.             *)
(***************************************************************************)
EXTENDS Integers, Sequences, FiniteSets, TLC

VARIABLES store, req, now, started, posted, page

vars == <<store, req, now, started, posted, page>>

---------------------------------------------------------------------------
(* Bounds *)

MaxTime == 2

MaxRequests == 3

MaxHeartRate == 130

MaxOxygenLevel == 100

MaxTemperature == 395

MinTemperature == 340

MaxClock == 18

\* period selections on the Analytics page
MaxSelections == 2

Slots == {1, 2}

---------------------------------------------------------------------------
(* JavaScript values *)

\* a field missing from the request body
Undefined == -1

\* the stored null of `x || null`
Null == -2

\* `bloodPressure` missing from the body, and its stored null
NoBP == <<>>

Truthy(v) == v # Undefined /\ v # Null /\ v # 0

OrNull(v) == IF Truthy(v) THEN v ELSE Null

Users == {"u1", "u2"}

Patients == {"p1", "p2"}

NoHeader == "no-header"

BadToken == "bad-token"

Credentials == Users \cup {NoHeader, BadToken}

\* the Authorization headers tried on POST /vitals and on the GET routes
PostCredentials == {"u1", NoHeader, BadToken}

\* verifyUser that takes every token for that of a user
VerifyUserAnyToken(authHeader) ==
  IF authHeader = NoHeader
    THEN [error |-> "No authorization header", status |-> 401]
    ELSE [user |-> authHeader]

VerifyUser(authHeader) ==
  IF authHeader = NoHeader
    THEN [error |-> "No authorization header", status |-> 401]
    ELSE IF authHeader \notin Users
      THEN [error |-> "Unauthorized", status |-> 401]
      ELSE [user |-> authHeader]

---------------------------------------------------------------------------
(* Store keys and the store adapter *)

VitalKey(patientId, t) ==
  [kind |-> "vitals", pid |-> patientId, t |-> t, type |-> ""]

AlertKey(patientId, t, type) ==
  [kind |-> "alert", pid |-> patientId, t |-> t, type |-> type]

MissingKey == [kind |-> "alert", pid |-> "p1", t |-> 0, type |-> "Heart Rate"]

Put(s, key, value) == (key :> value) @@ s

Has(s, key) == key \in DOMAIN s

---------------------------------------------------------------------------
(* Threshold classification of POST /vitals *)

\* HeartRateAlert with the critical-low bound of the sensor table (< 50)
HeartRateAlertLow50(heartRate) ==
  IF Truthy(heartRate) /\ (heartRate < 60 \/ heartRate > 100)
    THEN << [type     |-> "Heart Rate",
             severity |-> IF heartRate < 50 \/ heartRate > 120
                            THEN "critical" ELSE "warning",
             value    |-> heartRate,
             message  |-> <<"Heart rate",
                            IF heartRate < 60 THEN "below" ELSE "above",
                            "normal range">>] >>
    ELSE << >>

HeartRateAlert(heartRate) ==
  IF Truthy(heartRate) /\ (heartRate < 60 \/ heartRate > 100)
    THEN << [type     |-> "Heart Rate",
             severity |-> IF heartRate < 40 \/ heartRate > 120
                            THEN "critical" ELSE "warning",
             value    |-> heartRate,
             message  |-> <<"Heart rate",
                            IF heartRate < 60 THEN "below" ELSE "above",
                            "normal range">>] >>
    ELSE << >>

\* OxygenAlert with an inclusive normal bound (<= 95)
OxygenAlertInclusive(oxygenLevel) ==
  IF Truthy(oxygenLevel) /\ oxygenLevel <= 95
    THEN << [type     |-> "Oxygen Level",
             severity |-> IF oxygenLevel < 90 THEN "critical" ELSE "warning",
             value    |-> oxygenLevel,
             message  |-> <<"Oxygen saturation below normal",
                            oxygenLevel, "%">>] >>
    ELSE << >>

OxygenAlert(oxygenLevel) ==
  IF Truthy(oxygenLevel) /\ oxygenLevel < 95
    THEN << [type     |-> "Oxygen Level",
             severity |-> IF oxygenLevel < 90 THEN "critical" ELSE "warning",
             value    |-> oxygenLevel,
             message  |-> <<"Oxygen saturation below normal",
                            oxygenLevel, "%">>] >>
    ELSE << >>

\* TemperatureAlert that pushes the warning and the critical alert separately
TemperatureAlertTwoPushes(temperature) ==
  (IF Truthy(temperature) /\ (temperature < 361 \/ temperature > 372)
     THEN << [type     |-> "Temperature",
              severity |-> "warning",
              value    |-> temperature,
              message  |-> <<"Body temperature",
                             IF temperature < 361 THEN "below" ELSE "above",
                             "normal range">>] >>
     ELSE << >>)
  \o
  (IF Truthy(temperature) /\ (temperature < 350 \/ temperature > 385)
     THEN << [type     |-> "Temperature",
              severity |-> "critical",
              value    |-> temperature,
              message  |-> <<"Body temperature",
                             IF temperature < 361 THEN "below" ELSE "above",
                             "normal range">>] >>
     ELSE << >>)

TemperatureAlert(temperature) ==
  IF Truthy(temperature) /\ (temperature < 361 \/ temperature > 372)
    THEN << [type     |-> "Temperature",
             severity |-> IF temperature < 350 \/ temperature > 385
                            THEN "critical" ELSE "warning",
             value    |-> temperature,
             message  |-> <<"Body temperature",
                            IF temperature < 361 THEN "below" ELSE "above",
                            "normal range">>] >>
    ELSE << >>

ClassifyAlerts(heartRate, oxygenLevel, temperature) ==
  HeartRateAlert(heartRate) \o OxygenAlert(oxygenLevel)
    \o TemperatureAlert(temperature)

VitalReading(vitalId, body, timestamp, userId) ==
  [id            |-> vitalId,
   patientId     |-> body.patientId,
   heartRate     |-> OrNull(body.heartRate),
   bloodPressure |-> body.bloodPressure,
   oxygenLevel   |-> OrNull(body.oxygenLevel),
   temperature   |-> OrNull(body.temperature),
   notes         |-> body.notes,
   timestamp     |-> timestamp,
   recordedBy    |-> userId]

StoredAlert(alertId, patientId, vitalId, alert, timestamp) ==
  [id           |-> alertId,
   patientId    |-> patientId,
   vitalId      |-> vitalId,
   type         |-> alert.type,
   severity     |-> alert.severity,
   value        |-> alert.value,
   message      |-> alert.message,
   timestamp    |-> timestamp,
   acknowledged |-> FALSE]

UpdatedAlert(alert, userId, t) ==
  [f \in DOMAIN alert \cup {"acknowledged", "acknowledgedBy", "acknowledgedAt"} |->
     CASE f = "acknowledged"   -> TRUE
       [] f = "acknowledgedBy" -> userId
       [] f = "acknowledgedAt" -> t
       [] OTHER                -> alert[f]]

---------------------------------------------------------------------------
(* Request bodies *)

Body(patientId, heartRate, bloodPressure, oxygenLevel, temperature, notes) ==
  [patientId     |-> patientId,
   heartRate     |-> heartRate,
   bloodPressure |-> bloodPressure,
   oxygenLevel   |-> oxygenLevel,
   temperature   |-> temperature,
   notes         |-> notes]

\* bodies of the concurrent specification
Bodies ==
  { Body("p1", 45, NoBP, Undefined, Undefined, ""),
    Body("p1", 130, NoBP, 89, Undefined, ""),
    Body("p1", 80, <<120, 80>>, 97, 365, ""),
    Body("", 80, NoBP, Undefined, Undefined, "") }

\* bodies of the classification specification: one sweep per vital, and the
\* combinations of the values around every threshold
HeartRateValues == {Undefined, 0, 39, 40, 45, 59, 60, 100, 101, 105, 120, 121}

OxygenValues == {Undefined, 0, 89, 90, 92, 94, 95, 97}

TemperatureValues == {Undefined, 0, 349, 350, 360, 361, 372, 373, 385, 386, 390}

BloodPressureValues == {NoBP, <<120, 80>>, <<150, 95>>, <<85, 55>>, <<110, 95>>}

ClassifyBodies ==
  { Body("p1", h, NoBP, Undefined, Undefined, "") : h \in 0..MaxHeartRate }
  \cup { Body("p1", Undefined, NoBP, o, Undefined, "") : o \in 0..MaxOxygenLevel }
  \cup { Body("p1", Undefined, NoBP, Undefined, t, "") : t \in MinTemperature..MaxTemperature }
  \cup { Body("p1", h, bp, o, t, "") :
           h \in HeartRateValues, bp \in BloodPressureValues,
           o \in OxygenValues, t \in TemperatureValues }

\* getVitalStatus('bloodPressure', "S/D") = 'normal', on the parsed pair
BloodPressureNormal(bp) ==
  bp[1] >= 90 /\ bp[1] <= 120 /\ bp[2] >= 60 /\ bp[2] <= 80

\* the response field `alerts` that always carries the array
ResponseAlertsNeverNull(alerts) == {alerts}

\* the response field `alerts: alerts.length > 0 ? alerts : null`; null is the
\* empty set and an array the set holding it
ResponseAlerts(alerts) == IF Len(alerts) > 0 THEN {alerts} ELSE {}

---------------------------------------------------------------------------
(* State *)

Idle == [pc |-> "idle"]

Done(op, status, payload) ==
  [pc |-> "done", op |-> op, status |-> status, payload |-> payload]

\* a connection of the Analytics page that carries no request
NoCall == [period |-> "", latest |-> FALSE]

\* useState<any>(null) of analyticsData
NullData == [null |-> TRUE]

\* no response received yet by the latest call of loadAnalytics
NoResponse == [status |-> 0, payload |-> NullData]

\* the Analytics page before it is mounted
Unmounted ==
  [mounted        |-> FALSE,
   user           |-> [id |-> "", role |-> ""],
   selectedPeriod |-> "7days",
   selections     |-> 0,
   loading        |-> TRUE,
   analyticsData  |-> NullData,
   calls          |-> [r \in Slots |-> NoCall],
   latestResponse |-> NoResponse]

Init ==
  /\ store = << >>
  /\ req = [r \in Slots |-> Idle]
  /\ now = 1
  /\ started = 0
  /\ posted = {}
  /\ page = Unmounted

Free(r) == req[r].pc \in {"idle", "done"} /\ started < MaxRequests

---------------------------------------------------------------------------
(* POST /make-server-3d5bb2df/vitals *)

\* the test that finds a patientId in every body
PatientIdNeverMissing(body) == FALSE

\* !patientId
PatientIdMissing(body) == body.patientId = ""

PostVitals(r, authHeader, body) ==
  /\ Free(r)
  /\ UNCHANGED page
  /\ started' = started + 1
  /\ LET authResult == VerifyUser(authHeader) IN
     IF "error" \in DOMAIN authResult
       THEN /\ req' = [req EXCEPT ![r] =
                 Done("postVitals", authResult.status, [error |-> authResult.error])]
            /\ UNCHANGED <<store, now, posted>>
       ELSE IF PatientIdMissing(body)
         THEN /\ req' = [req EXCEPT ![r] =
                   Done("postVitals", 400, [error |-> "Patient ID is required"])]
              /\ UNCHANGED <<store, now, posted>>
         ELSE \E idTime \in {now, now + 1} :
                /\ idTime = now \/ idTime <= MaxTime
                /\ now' = idTime
                /\ LET vitalId == VitalKey(body.patientId, idTime) IN
                   req' = [req EXCEPT ![r] =
                     [pc           |-> "setVital",
                      op           |-> "postVitals",
                      user         |-> authResult.user,
                      body         |-> body,
                      timestamp    |-> now,
                      vitalId      |-> vitalId,
                      vitalReading |-> VitalReading(vitalId, body, now, authResult.user)]]
                /\ UNCHANGED <<store, posted>>

PostVitalsStored(r) ==
  /\ req[r].pc = "setVital"
  /\ LET q == req[r]
         alerts == ClassifyAlerts(q.body.heartRate, q.body.oxygenLevel,
                                  q.body.temperature)
     IN /\ store' = Put(store, q.vitalId, q.vitalReading)
        /\ IF Len(alerts) = 0
             THEN /\ req' = [req EXCEPT ![r] =
                       Done("postVitals", 200,
                            [vitalReading |-> q.vitalReading,
                             alerts |-> ResponseAlerts(alerts),
                             body |-> q.body])]
                  /\ posted' = posted \cup {q.vitalReading}
             ELSE /\ req' = [req EXCEPT ![r] =
                       [pc           |-> "setAlert",
                        op           |-> "postVitals",
                        user         |-> q.user,
                        body         |-> q.body,
                        timestamp    |-> q.timestamp,
                        vitalId      |-> q.vitalId,
                        vitalReading |-> q.vitalReading,
                        alerts       |-> alerts,
                        i            |-> 1,
                        alertId      |-> AlertKey(q.body.patientId, now, alerts[1].type)]]
                  /\ posted' = posted
  /\ UNCHANGED <<now, started, page>>

PostAlertStored(r) ==
  /\ req[r].pc = "setAlert"
  /\ LET q == req[r] IN
        /\ store' = Put(store, q.alertId,
                        StoredAlert(q.alertId, q.body.patientId, q.vitalId,
                                    q.alerts[q.i], q.timestamp))
        /\ IF q.i < Len(q.alerts)
             THEN /\ req' = [req EXCEPT ![r] =
                       [q EXCEPT !.i = q.i + 1,
                                 !.alertId = AlertKey(q.body.patientId, now,
                                                      q.alerts[q.i + 1].type)]]
                  /\ posted' = posted
             ELSE /\ req' = [req EXCEPT ![r] =
                       Done("postVitals", 200,
                            [vitalReading |-> q.vitalReading,
                             alerts |-> ResponseAlerts(q.alerts),
                             body |-> q.body])]
                  /\ posted' = posted \cup {q.vitalReading}
  /\ UNCHANGED <<now, started, page>>

---------------------------------------------------------------------------
(* PUT /make-server-3d5bb2df/alerts/:alertId/acknowledge *)

\* the :alertId path parameters tried: every key of the store and one that
\* is not stored
AlertIds == DOMAIN store \cup {MissingKey}

Acknowledge(r, authHeader) ==
  /\ Free(r)
  /\ started' = started + 1
  /\ \E alertId \in AlertIds :
       LET authResult == VerifyUser(authHeader) IN
       IF "error" \in DOMAIN authResult
         THEN req' = [req EXCEPT ![r] =
                Done("acknowledge", authResult.status, [error |-> authResult.error])]
         ELSE req' = [req EXCEPT ![r] =
                [pc |-> "ackGet", op |-> "acknowledge",
                 user |-> authResult.user, alertId |-> alertId]]
  /\ UNCHANGED <<store, now, posted, page>>

\* AcknowledgeRead without the `if (!alert)` test: a missing alert is
\* acknowledged as an empty object
AcknowledgeReadNoCheck(r) ==
  /\ req[r].pc = "ackGet"
  /\ LET q == req[r] IN
     req' = [req EXCEPT ![r] =
       [pc |-> "ackSet", op |-> "acknowledge", user |-> q.user,
        alertId |-> q.alertId,
        updatedAlert |-> UpdatedAlert(IF Has(store, q.alertId)
                                        THEN store[q.alertId]
                                        ELSE [id |-> q.alertId],
                                      q.user, now)]]
  /\ UNCHANGED <<store, now, started, posted, page>>

AcknowledgeRead(r) ==
  /\ req[r].pc = "ackGet"
  /\ LET q == req[r] IN
     IF ~Has(store, q.alertId)
       THEN req' = [req EXCEPT ![r] =
              Done("acknowledge", 404, [error |-> "Alert not found"])]
       ELSE req' = [req EXCEPT ![r] =
              [pc |-> "ackSet", op |-> "acknowledge", user |-> q.user,
               alertId |-> q.alertId,
               updatedAlert |-> UpdatedAlert(store[q.alertId], q.user, now)]]
  /\ UNCHANGED <<store, now, started, posted, page>>

\* AcknowledgeStored that keeps the acknowledgedAt of an alert that is already
\* acknowledged in the store
AcknowledgeStoredKeepsFirstTime(r) ==
  /\ req[r].pc = "ackSet"
  /\ LET q == req[r]
         old == store[q.alertId]
         merged == IF "acknowledgedAt" \in DOMAIN old
                     THEN [q.updatedAlert EXCEPT
                             !.acknowledgedAt = old.acknowledgedAt]
                     ELSE q.updatedAlert
     IN /\ store' = Put(store, q.alertId, merged)
        /\ req' = [req EXCEPT ![r] =
             Done("acknowledge", 200, [alert |-> q.updatedAlert])]
  /\ UNCHANGED <<now, started, posted, page>>

AcknowledgeStored(r) ==
  /\ req[r].pc = "ackSet"
  /\ LET q == req[r] IN
        /\ store' = Put(store, q.alertId, q.updatedAlert)
        /\ req' = [req EXCEPT ![r] =
             Done("acknowledge", 200, [alert |-> q.updatedAlert])]
  /\ UNCHANGED <<now, started, posted, page>>

---------------------------------------------------------------------------
(* Environment: a store call that throws, and the clock *)

StoreFails(r) ==
  /\ req[r].pc \in {"setVital", "setAlert", "ackGet", "ackSet"}
  /\ req' = [req EXCEPT ![r] =
       Done(req[r].op, 500,
            [error |-> IF req[r].op = "postVitals"
                         THEN "Failed to record vital reading"
                         ELSE "Failed to acknowledge alert"])]
  /\ UNCHANGED <<store, now, started, posted, page>>

Tick ==
  /\ now < MaxTime
  /\ now' = now + 1
  /\ UNCHANGED <<store, req, started, posted, page>>

---------------------------------------------------------------------------
(* Calendar of the Date object.  An instant is a number of clock ticks; a  *)
(* day has TicksPerDay ticks, and the calendar is regular: every month has *)
(* DaysPerMonth days and every year MonthsPerYear months.                  *)

TicksPerDay == 2

DaysPerMonth == 30

MonthsPerYear == 12

TicksPerMonth == DaysPerMonth * TicksPerDay

TicksPerYear == MonthsPerYear * TicksPerMonth

\* date.getDate(): the day of the month, from 1
GetDate(t) == ((t \div TicksPerDay) % DaysPerMonth) + 1

\* date.getMonth(): the month of the year, from 0
GetMonth(t) == (t \div TicksPerMonth) % MonthsPerYear

\* date.getFullYear()
GetFullYear(t) == t \div TicksPerYear

\* date.setDate(d): day d of the month of t, at the time of day of t; d <= 0
\* counts back from the end of the month before
SetDate(t, d) == t + (d - GetDate(t)) * TicksPerDay

\* date.setMonth(m): month m of the year of t; m < 0 counts back from the
\* end of the year before
SetMonth(t, m) == t + (m - GetMonth(t)) * TicksPerMonth

\* date.setFullYear(y)
SetFullYear(t, y) == t + (y - GetFullYear(t)) * TicksPerYear

Periods == {"7days", "30days", "3months", "1year"}

\* a period string that the switch does not know
UnknownPeriod == "90days"

\* c.req.query('period') || '7days', with "" the missing query parameter
PeriodOrDefault(period) == IF period = "" THEN "7days" ELSE period

\* the switch on period: `now` and `cutoffDate` are two readings of the clock,
\* and the fields of `now` are set on `cutoffDate`
Cutoff(period, nowDate, cutoffDate) ==
  CASE period = "7days"   -> SetDate(cutoffDate, GetDate(nowDate) - 7)
    [] period = "30days"  -> SetDate(cutoffDate, GetDate(nowDate) - 30)
    [] period = "3months" -> SetMonth(cutoffDate, GetMonth(nowDate) - 3)
    [] period = "1year"   -> SetFullYear(cutoffDate, GetFullYear(nowDate) - 1)
    [] OTHER              -> cutoffDate

---------------------------------------------------------------------------
(* Prefix scans, orderings and sorts *)

ProfileKey(userId) ==
  [kind |-> "profile", pid |-> userId, t |-> 0, type |-> ""]

\* kv.getByPrefix(`<kind>:`): the values of every key of the kind
GetByKind(s, kind) == { s[k] : k \in { x \in DOMAIN s : x.kind = kind } }

\* the scan that ignores the patient part of the prefix
GetByPrefixAnyPatient(s, kind, patientId) == GetByKind(s, kind)

\* kv.getByPrefix(`<kind>:<patientId>:`)
GetByPrefix(s, kind, patientId) ==
  { s[k] : k \in { x \in DOMAIN s : x.kind = kind /\ x.pid = patientId } }

RECURSIVE Orderings(_)
\* the arrays a prefix scan may return for a set of values: any order
Orderings(S) ==
  IF S = {} THEN { << >> }
  ELSE UNION { { <<x>> \o rest : rest \in Orderings(S \ {x}) } : x \in S }

Reverse(s) == [i \in 1..Len(s) |-> s[Len(s) + 1 - i]]

RECURSIVE OneOrder(_)
\* one of the arrays of Orderings(S)
OneOrder(S) ==
  IF S = {} THEN << >>
  ELSE LET x == CHOOSE y \in S : TRUE IN <<x>> \o OneOrder(S \ {x})

\* two of the arrays a prefix scan may return: one order and its reverse
ScanOrders(S) == {OneOrder(S), Reverse(OneOrder(S))}

RECURSIVE InsertDesc(_, _)
\* x put into the descending array s behind the elements that are not older
InsertDesc(x, s) ==
  IF s = << >> THEN <<x>>
  ELSE IF Head(s).timestamp >= x.timestamp
    THEN <<Head(s)>> \o InsertDesc(x, Tail(s))
    ELSE <<x>> \o s

RECURSIVE InsertAsc(_, _)
\* x put into the ascending array s behind the elements that are not newer
InsertAsc(x, s) ==
  IF s = << >> THEN <<x>>
  ELSE IF Head(s).timestamp <= x.timestamp
    THEN <<Head(s)>> \o InsertAsc(x, Tail(s))
    ELSE <<x>> \o s

RECURSIVE SortAsc(_)
\* list.sort((a, b) => time(a) - time(b)): stable, oldest first
SortAsc(list) ==
  IF list = << >> THEN << >>
  ELSE InsertAsc(list[Len(list)], SortAsc(SubSeq(list, 1, Len(list) - 1)))

RECURSIVE SortDesc(_)
\* list.sort((a, b) => time(b) - time(a)): stable, newest first
SortDesc(list) ==
  IF list = << >> THEN << >>
  ELSE InsertDesc(list[Len(list)], SortDesc(SubSeq(list, 1, Len(list) - 1)))

Min(a, b) == IF a < b THEN a ELSE b

\* list.slice(0, limit) for limit >= 0
Slice(list, limit) == SubSeq(list, 1, Min(limit, Len(list)))

\* list.filter(v => new Date(v.timestamp) >= cutoffDate)
FilterSince(list, cutoffDate) ==
  SelectSeq(list, LAMBDA v : v.timestamp >= cutoffDate)

\* Math.round(n / d) for n >= 0 and d > 0
Round(n, d) == (2 * n + d) \div (2 * d)

RECURSIVE Sum(_, _)
Sum(list, field) ==
  IF list = << >> THEN 0 ELSE list[1][field] + Sum(Tail(list), field)

---------------------------------------------------------------------------
(* Hono routes, in the order of their registration: the first route that  *)
(* matches the method and the path handles the request.                   *)

ParamSegments == {":userId", ":patientId", ":alertId"}

Routes ==
  << [method |-> "GET",  path |-> <<"health">>, handler |-> "health"],
     [method |-> "POST", path |-> <<"signup">>, handler |-> "signup"],
     [method |-> "GET",  path |-> <<"profile", ":userId">>, handler |-> "getProfile"],
     [method |-> "PUT",  path |-> <<"profile", ":userId">>, handler |-> "putProfile"],
     [method |-> "POST", path |-> <<"vitals">>, handler |-> "postVitals"],
     [method |-> "GET",  path |-> <<"vitals", ":patientId">>, handler |-> "getVitals"],
     [method |-> "GET",  path |-> <<"alerts", ":patientId">>, handler |-> "getAlerts"],
     [method |-> "PUT",  path |-> <<"alerts", ":alertId", "acknowledge">>, handler |-> "acknowledge"],
     [method |-> "GET",  path |-> <<"patients">>, handler |-> "getPatients"],
     [method |-> "PUT",  path |-> <<"patients", ":patientId", "assign-doctor">>, handler |-> "assignDoctor"],
     [method |-> "GET",  path |-> <<"alerts", "all">>, handler |-> "getAllAlerts"],
     [method |-> "GET",  path |-> <<"analytics", ":patientId">>, handler |-> "getAnalytics"],
     [method |-> "GET",  path |-> <<"analytics", "aggregate", "all">>, handler |-> "getAggregate"] >>

Matches(route, method, path) ==
  /\ route.method = method
  /\ Len(route.path) = Len(path)
  /\ \A i \in 1..Len(path) :
       route.path[i] \in ParamSegments \/ route.path[i] = path[i]

\* the handler of the first registered route that matches
Dispatch(method, path) ==
  LET hits == { i \in 1..Len(Routes) : Matches(Routes[i], method, path) }
  IN IF hits = {} THEN "notFound"
     ELSE Routes[CHOOSE i \in hits : \A j \in hits : i <= j].handler

---------------------------------------------------------------------------
(* POST /make-server-3d5bb2df/signup: the profile of a new user *)

\* JavaScript null in a field that otherwise holds text
NullText == "null"

SignupBodies ==
  { [id |-> "p1", email |-> "p1@example.org", name |-> "Pat One", role |-> "patient"],
    [id |-> "d1", email |-> "d1@example.org", name |-> "Doc One", role |-> "doctor"] }

Profile(body, createdAt, updatedAt) ==
  IF body.role = "patient"
    THEN [id |-> body.id, email |-> body.email, name |-> body.name,
          role |-> body.role, createdAt |-> createdAt, updatedAt |-> updatedAt,
          age |-> Null, gender |-> NullText, bloodType |-> NullText,
          allergies |-> << >>, medications |-> << >>,
          emergencyContact |-> NullText, assignedDoctorId |-> NullText]
    ELSE [id |-> body.id, email |-> body.email, name |-> body.name,
          role |-> body.role, createdAt |-> createdAt, updatedAt |-> updatedAt]

Signup(body) ==
  /\ ~Has(store, ProfileKey(body.id))
  /\ \E updatedAt \in {now, now + 1} :
       /\ updatedAt = now \/ updatedAt <= MaxTime
       /\ now' = updatedAt
       /\ store' = Put(store, ProfileKey(body.id), Profile(body, now, updatedAt))
  /\ UNCHANGED <<req, started, posted, page>>

---------------------------------------------------------------------------
(* GET /make-server-3d5bb2df/vitals/:patientId *)

\* a slot that can take a read request
Ready(r) == req[r].pc \in {"idle", "done"}

Failed(op, message) == Done(op, 500, [error |-> message])

DefaultLimit == 50

\* parseInt(c.req.query('limit') || '50') of a missing or a non-negative
\* decimal query parameter
ParseLimit(limit) == IF limit = Undefined THEN DefaultLimit ELSE limit

LimitQueries == {Undefined, 0, 1, 2}

GetVitals(r, authHeader, patientId, limit) ==
  /\ Ready(r)
  /\ Dispatch("GET", <<"vitals", patientId>>) = "getVitals"
  /\ LET authResult == VerifyUser(authHeader) IN
     IF "error" \in DOMAIN authResult
       THEN req' = [req EXCEPT ![r] =
              Done("getVitals", authResult.status, [error |-> authResult.error])]
       ELSE \/ req' = [req EXCEPT ![r] =
                 Failed("getVitals", "Failed to fetch vital readings")]
            \/ \E allVitals \in Orderings(GetByPrefix(store, "vitals", patientId)) :
                 req' = [req EXCEPT ![r] =
                   Done("getVitals", 200,
                        [vitals    |-> Slice(SortDesc(allVitals), ParseLimit(limit)),
                         patientId |-> patientId,
                         limit     |-> limit])]
  /\ UNCHANGED <<store, now, started, posted, page>>

---------------------------------------------------------------------------
(* GET /make-server-3d5bb2df/alerts/<segment>: the route of               *)
(* /alerts/:patientId or the route of /alerts/all, as Hono dispatches      *)

\* patientMap.get(alert.patientId)?.<field> || <placeholder>
ProfileField(patients, patientId, field, placeholder) ==
  LET found == { q \in patients : q.id = patientId } IN
    IF found = {} THEN placeholder
    ELSE LET v == (CHOOSE q \in found : TRUE)[field] IN
           IF v = NullText \/ v = "" THEN placeholder ELSE v

EnrichedAlert(alert, patients) ==
  [f \in DOMAIN alert \cup {"patientName", "patientAge", "patientEmail"} |->
     CASE f = "patientName"  ->
            ProfileField(patients, alert.patientId, "name", "Unknown Patient")
       [] f = "patientAge"   ->
            IF \E q \in patients : q.id = alert.patientId /\ Truthy(q.age)
              THEN (CHOOSE q \in patients : q.id = alert.patientId).age
              ELSE Null
       [] f = "patientEmail" ->
            ProfileField(patients, alert.patientId, "email", NullText)
       [] OTHER              -> alert[f]]

PatientProfiles(s) == { q \in GetByKind(s, "profile") : q.role = "patient" }

AlertSegments == {"p1", "p2", "all"}

GetAlerts(r, authHeader, segment) ==
  /\ Ready(r)
  /\ LET authResult == VerifyUser(authHeader)
         handler == Dispatch("GET", <<"alerts", segment>>)
     IN
     IF "error" \in DOMAIN authResult
       THEN req' = [req EXCEPT ![r] =
              Done("getAlerts", authResult.status, [error |-> authResult.error])]
       ELSE \/ req' = [req EXCEPT ![r] =
                 Failed("getAlerts", "Failed to fetch alerts")]
            \/ /\ handler = "getAlerts"
               /\ \E allAlerts \in Orderings(GetByPrefix(store, "alert", segment)) :
                    req' = [req EXCEPT ![r] =
                      Done("getAlerts", 200,
                           [alerts  |-> SortDesc(allAlerts),
                            handler |-> handler,
                            segment |-> segment])]
            \/ /\ handler = "getAllAlerts"
               /\ \E allAlerts \in Orderings(GetByKind(store, "alert")) :
                    LET enrichedAlerts ==
                          [i \in 1..Len(allAlerts) |->
                             EnrichedAlert(allAlerts[i], PatientProfiles(store))]
                    IN req' = [req EXCEPT ![r] =
                         Done("getAlerts", 200,
                              [alerts  |-> SortDesc(enrichedAlerts),
                               handler |-> handler,
                               segment |-> segment])]
  /\ UNCHANGED <<store, now, started, posted, page>>

---------------------------------------------------------------------------
(* GET /make-server-3d5bb2df/analytics/:patientId and                     *)
(* GET /make-server-3d5bb2df/analytics/aggregate/all                      *)

HeartRateNormal(v) ==
  ~Truthy(v.heartRate) \/ (v.heartRate >= 60 /\ v.heartRate <= 100)

OxygenNormal(v) == ~Truthy(v.oxygenLevel) \/ v.oxygenLevel >= 95

TemperatureNormal(v) ==
  ~Truthy(v.temperature) \/ (v.temperature >= 361 /\ v.temperature <= 372)

ReadingNormal(v) == HeartRateNormal(v) /\ OxygenNormal(v) /\ TemperatureNormal(v)

IsCritical(a) == a.severity = "critical"

IsWarning(a) == a.severity = "warning"

\* the test that takes every reading as having a heart rate
HasHeartRateAlways(v) == TRUE

HasHeartRate(v) == Truthy(v.heartRate)

HasOxygenLevel(v) == Truthy(v.oxygenLevel)

PatientStats(vitals, alerts) ==
  [totalReadings  |-> Len(vitals),
   normalReadings |-> Len(SelectSeq(vitals, ReadingNormal)),
   totalAlerts    |-> Len(alerts),
   criticalAlerts |-> Len(SelectSeq(alerts, IsCritical)),
   warningAlerts  |-> Len(SelectSeq(alerts, IsWarning))]

\* the rounded mean of a field over the readings that have it, 0 without any
Average(present, field) ==
  IF Len(present) > 0 THEN Round(Sum(present, field), Len(present)) ELSE 0

AggregateStats(vitals, alerts, patients) ==
  [totalPatients  |-> Cardinality(patients),
   totalReadings  |-> Len(vitals),
   totalAlerts    |-> Len(alerts),
   criticalAlerts |-> Len(SelectSeq(alerts, IsCritical)),
   warningAlerts  |-> Len(SelectSeq(alerts, IsWarning)),
   avgHeartRate   |-> Average(SelectSeq(vitals, HasHeartRate), "heartRate"),
   avgOxygenLevel |-> Average(SelectSeq(vitals, HasOxygenLevel), "oxygenLevel")]

PeriodQueries == Periods \cup {"", UnknownPeriod}

\* the clock may reach t between two statements of a handler: in the first
\* MaxTime ticks, and after them up to MaxClock
ClockRuns(t) == t <= MaxTime \/ (t > MaxTime + 1 /\ t <= MaxClock)

GetAnalytics(r, authHeader, patientId, periodQuery) ==
  /\ Ready(r)
  /\ Dispatch("GET", <<"analytics", patientId>>) = "getAnalytics"
  /\ LET authResult == VerifyUser(authHeader)
         period == PeriodOrDefault(periodQuery)
     IN
     IF "error" \in DOMAIN authResult
       THEN /\ req' = [req EXCEPT ![r] =
                 Done("getAnalytics", authResult.status, [error |-> authResult.error])]
            /\ now' = now
       ELSE \/ /\ req' = [req EXCEPT ![r] =
                    Failed("getAnalytics", "Failed to fetch analytics")]
               /\ now' = now
            \/ \E allVitals \in ScanOrders(GetByPrefix(store, "vitals", patientId)),
                  allAlerts \in ScanOrders(GetByPrefix(store, "alert", patientId)),
                  cutoffRead \in {now, now + 1} :
                 LET cutoffDate == Cutoff(period, now, cutoffRead)
                     vitals == SortAsc(FilterSince(allVitals, cutoffDate))
                     alerts == SortAsc(FilterSince(allAlerts, cutoffDate))
                 IN /\ cutoffRead = now \/ ClockRuns(cutoffRead)
                    /\ now' = cutoffRead
                    /\ req' = [req EXCEPT ![r] =
                         Done("getAnalytics", 200,
                              [vitals    |-> vitals,
                               alerts    |-> alerts,
                               stats     |-> PatientStats(vitals, alerts),
                               patientId |-> patientId,
                               period    |-> periodQuery,
                               clock     |-> <<now, cutoffRead>>])]
  /\ UNCHANGED <<store, started, posted, page>>

GetAggregate(r, authHeader, periodQuery) ==
  /\ Ready(r)
  /\ Dispatch("GET", <<"analytics", "aggregate", "all">>) = "getAggregate"
  /\ LET authResult == VerifyUser(authHeader)
         period == PeriodOrDefault(periodQuery)
     IN
     IF "error" \in DOMAIN authResult
       THEN /\ req' = [req EXCEPT ![r] =
                 Done("getAggregate", authResult.status, [error |-> authResult.error])]
            /\ now' = now
       ELSE \/ /\ req' = [req EXCEPT ![r] =
                    Failed("getAggregate", "Failed to fetch aggregate analytics")]
               /\ now' = now
            \/ \E allVitals \in ScanOrders(GetByKind(store, "vitals")),
                  allAlerts \in ScanOrders(GetByKind(store, "alert")),
                  cutoffRead \in {now, now + 1} :
                 LET patients == PatientProfiles(store)
                     cutoffDate == Cutoff(period, now, cutoffRead)
                     vitals == FilterSince(allVitals, cutoffDate)
                     alerts == FilterSince(allAlerts, cutoffDate)
                 IN /\ cutoffRead = now \/ ClockRuns(cutoffRead)
                    /\ now' = cutoffRead
                    /\ req' = [req EXCEPT ![r] =
                         Done("getAggregate", 200,
                              [vitals   |-> vitals,
                               alerts   |-> alerts,
                               stats    |-> AggregateStats(vitals, alerts, patients),
                               patients |-> patients,
                               period   |-> periodQuery,
                               clock    |-> <<now, cutoffRead>>])]
  /\ UNCHANGED <<store, started, posted, page>>

\* the clock moving on by a longer time
ClockJumps == {15}

Advance(k) ==
  /\ now + k <= MaxClock
  /\ now' = now + k
  /\ UNCHANGED <<store, req, started, posted, page>>

---------------------------------------------------------------------------

Next ==
  \/ \E r \in Slots, h \in PostCredentials, b \in Bodies : PostVitals(r, h, b)
  \/ \E r \in Slots : PostVitalsStored(r)
  \/ \E r \in Slots : PostAlertStored(r)
  \/ \E r \in Slots, h \in Credentials : Acknowledge(r, h)
  \/ \E r \in Slots : AcknowledgeRead(r)
  \/ \E r \in Slots : AcknowledgeStored(r)
  \/ \E r \in Slots : StoreFails(r)
  \/ Tick

Spec == Init /\ [][Next]_vars

\* one POST /vitals, run alone from the empty store, over every body of
\* ClassifyBodies
NextClassify ==
  \/ \E h \in Users, b \in ClassifyBodies : started = 0 /\ PostVitals(1, h, b)
  \/ PostVitalsStored(1)
  \/ PostAlertStored(1)

SpecClassify == Init /\ [][NextClassify]_vars

\* bodies of the query specification: two patients, at most one alert each
QueryBodies ==
  { Body("p1", 45, NoBP, Undefined, Undefined, ""),
    Body("p1", 80, <<120, 80>>, 97, 365, ""),
    Body("p2", 130, NoBP, Undefined, Undefined, "") }

ReadOps == {"getVitals", "getAlerts", "getAnalytics", "getAggregate"}

\* slot 1 holds the answer to a read request
Answered == req[1].pc = "done" /\ req[1].op \in ReadOps

\* the requests handled one after the other in slot 1: readings posted and
\* alerts acknowledged while the clock moves on, then the lists read back from
\* the store; the answer to a read stays in the slot until the next write
NextQuery ==
  \/ \E b \in QueryBodies : PostVitals(1, "u1", b)
  \/ PostVitalsStored(1)
  \/ PostAlertStored(1)
  \/ ~Answered /\ Acknowledge(1, "u1")
  \/ AcknowledgeRead(1)
  \/ AcknowledgeStored(1)
  \/ ~Answered /\ Tick
  \/ \E k \in ClockJumps : ~Answered /\ Advance(k)
  \/ \E h \in PostCredentials, p \in Patients, l \in LimitQueries :
       ~Answered /\ GetVitals(1, h, p, l)
  \/ \E h \in PostCredentials, g \in AlertSegments :
       ~Answered /\ GetAlerts(1, h, g)

SpecQuery == Init /\ [][NextQuery]_vars

\* the requests handled one after the other in slot 1: users signed up, then
\* readings posted while the clock moves on, then the analytics of a period
\* read back; the answer to a read stays in the slot until the next write
NextAnalytics ==
  \/ \E b \in SignupBodies : started = 0 /\ ~Answered /\ Signup(b)
  \/ \E b \in QueryBodies : PostVitals(1, "u1", b)
  \/ PostVitalsStored(1)
  \/ PostAlertStored(1)
  \/ ~Answered /\ Tick
  \/ \E k \in ClockJumps : ~Answered /\ Advance(k)
  \/ \E h \in PostCredentials, p \in Patients, q \in PeriodQueries :
       ~Answered /\ GetAnalytics(1, h, p, q)
  \/ \E h \in PostCredentials, q \in PeriodQueries :
       ~Answered /\ GetAggregate(1, h, q)

SpecAnalytics == Init /\ [][NextAnalytics]_vars

\* requests in flight together in the slots: readings posted while the
\* clock moves on, and the readings of a patient read back
NextRace ==
  \/ \E r \in Slots, b \in QueryBodies : PostVitals(r, "u1", b)
  \/ \E r \in Slots : PostVitalsStored(r)
  \/ \E r \in Slots : PostAlertStored(r)
  \/ Tick
  \/ \E r \in Slots, p \in Patients, l \in LimitQueries : GetVitals(r, "u1", p, l)

SpecRace == Init /\ [][NextRace]_vars

\* bodies of the statistics specification: heart rates with and without an
\* oxygen level, a blood pressure out of its band alone, and a second patient
\* with no vital at all and with a critical and a warning alert
StatsBodies ==
  { Body("p1", 60, NoBP, Undefined, Undefined, ""),
    Body("p1", 100, NoBP, 97, Undefined, ""),
    Body("p1", Undefined, <<150, 95>>, Undefined, Undefined, ""),
    Body("p2", Undefined, NoBP, Undefined, Undefined, ""),
    Body("p2", 130, NoBP, 93, Undefined, "") }

\* the period queries of the statistics specification: none and the longest
StatsPeriods == {"", "1year"}

\* the requests handled one after the other in slot 1: readings posted and
\* alerts acknowledged, then the statistics of the patient or of all patients
\* read back; the answer to a read stays in the slot until the next write
NextStats ==
  \/ \E b \in StatsBodies : PostVitals(1, "u1", b)
  \/ PostVitalsStored(1)
  \/ PostAlertStored(1)
  \/ ~Answered /\ Acknowledge(1, "u1")
  \/ AcknowledgeRead(1)
  \/ AcknowledgeStored(1)
  \/ \E p \in Patients, q \in StatsPeriods :
       ~Answered /\ GetAnalytics(1, "u1", p, q)
  \/ \E q \in StatsPeriods : ~Answered /\ GetAggregate(1, "u1", q)

SpecStats == Init /\ [][NextStats]_vars

\* the Authorization headers of a request that no user sent
Unauthenticated == {NoHeader, BadToken}

\* the requests handled one after the other in slot 1: readings posted and
\* alerts acknowledged with every credential, and the lists and the analytics
\* asked for without a valid one
NextAuth ==
  \/ \E h \in Credentials, b \in QueryBodies : PostVitals(1, h, b)
  \/ PostVitalsStored(1)
  \/ PostAlertStored(1)
  \/ \E h \in Credentials : ~Answered /\ Acknowledge(1, h)
  \/ AcknowledgeRead(1)
  \/ AcknowledgeStored(1)
  \/ \E h \in Unauthenticated, p \in Patients, l \in LimitQueries :
       ~Answered /\ GetVitals(1, h, p, l)
  \/ \E h \in Unauthenticated, g \in AlertSegments :
       ~Answered /\ GetAlerts(1, h, g)
  \/ \E h \in Unauthenticated, p \in Patients, q \in PeriodQueries :
       ~Answered /\ GetAnalytics(1, h, p, q)
  \/ \E h \in Unauthenticated, q \in PeriodQueries :
       ~Answered /\ GetAggregate(1, h, q)

SpecAuth == Init /\ [][NextAuth]_vars

\* the requests handled one after the other in slot 1: users signed up, then
\* readings posted, then the alerts of a patient or of all patients read back
NextRoster ==
  \/ \E b \in SignupBodies : started = 0 /\ ~Answered /\ Signup(b)
  \/ \E b \in QueryBodies : PostVitals(1, "u1", b)
  \/ PostVitalsStored(1)
  \/ PostAlertStored(1)
  \/ \E g \in AlertSegments : ~Answered /\ GetAlerts(1, "u1", g)

SpecRoster == Init /\ [][NextRoster]_vars

---------------------------------------------------------------------------
(* AddReading.handleSubmit.  The text of a form field is the sequence of   *)
(* its characters: the digits 0..9 and the decimal point.                  *)

Dot == 10

\* '': the text of a field left empty, the only falsy text
EmptyText == << >>

\* the number of leading digits of the text
RECURSIVE LeadingDigits(_)
LeadingDigits(text) ==
  IF text = << >> \/ Head(text) = Dot THEN 0
  ELSE 1 + LeadingDigits(Tail(text))

\* the decimal value of a sequence of digits
RECURSIVE DigitsValue(_)
DigitsValue(digits) ==
  IF digits = << >> THEN 0
  ELSE 10 * DigitsValue(SubSeq(digits, 1, Len(digits) - 1)) + digits[Len(digits)]

\* parseInt(text): the integer of the leading digits
ParseInt(text) == DigitsValue(SubSeq(text, 1, LeadingDigits(text)))

\* parseFloat(text) in tenths: the integer part and the first decimal
ParseFloat(text) ==
  LET n == LeadingDigits(text) IN
    IF n + 1 < Len(text)
      THEN 10 * DigitsValue(SubSeq(text, 1, n)) + text[n + 2]
      ELSE 10 * DigitsValue(SubSeq(text, 1, n))

\* `${formData.systolic}/${formData.diastolic}` when both are filled
FormBloodPressure(formData) ==
  IF formData.systolic # EmptyText /\ formData.diastolic # EmptyText
    THEN <<ParseInt(formData.systolic), ParseInt(formData.diastolic)>>
    ELSE NoBP

\* the argument of vitalsAPI.add
FormBody(formData) ==
  Body(formData.patientId,
       IF formData.heartRate # EmptyText THEN ParseInt(formData.heartRate)
                                         ELSE Undefined,
       FormBloodPressure(formData),
       IF formData.spo2 # EmptyText THEN ParseInt(formData.spo2) ELSE Undefined,
       IF formData.temperature # EmptyText THEN ParseFloat(formData.temperature)
                                           ELSE Undefined,
       formData.notes)

\* !heartRate && !systolic && !spo2 && !temperature
FormHasNoVital(formData) ==
  /\ formData.heartRate = EmptyText
  /\ formData.systolic = EmptyText
  /\ formData.spo2 = EmptyText
  /\ formData.temperature = EmptyText

\* a form the validation refuses: a toast, and nothing is sent
FormRefused(formData) == formData.patientId = "" \/ FormHasNoVital(formData)

Forms ==
  [patientId   : {"", "p1"},
   heartRate   : {EmptyText, <<4, 5>>, <<7, 2>>},
   systolic    : {EmptyText, <<1, 2, 0>>},
   diastolic   : {EmptyText, <<8, 0>>},
   spo2        : {EmptyText, <<9, 7>>},
   temperature : {EmptyText, <<3, 6, Dot, 6>>},
   notes       : {""}]

HandleSubmit(r, authHeader, formData) ==
  /\ ~FormRefused(formData)
  /\ PostVitals(r, authHeader, FormBody(formData))

\* the nurse submits forms one after the other
NextForm ==
  \/ \E f \in Forms : HandleSubmit(1, "u1", f)
  \/ PostVitalsStored(1)
  \/ PostAlertStored(1)
  \/ Tick

SpecForm == Init /\ [][NextForm]_vars

---------------------------------------------------------------------------
(* The Analytics page.  A call of loadAnalytics travels on a connection,   *)
(* a slot of req: the handler answers in the slot, and the answer reaches  *)
(* the page in a later step.  `latest` marks the call of the last          *)
(* selection and `latestResponse` keeps what that call received.           *)

PageUsers ==
  { [id |-> "p1", role |-> "patient"], [id |-> "d1", role |-> "doctor"] }

\* the token of the session, sent by apiCall
SessionToken == "u1"

\* loadAnalytics up to its await: setLoading(true) and the request sent on
\* connection r for the period of this render
LoadAnalytics(pg, r, period) ==
  [pg EXCEPT !.loading = TRUE,
             !.calls = [x \in Slots |->
                          IF x = r THEN [period |-> period, latest |-> TRUE]
                          ELSE [pg.calls[x] EXCEPT !.latest = FALSE]],
             !.latestResponse = NoResponse]

\* the first render and its effect
Mount(user) ==
  /\ ~page.mounted
  /\ \E r \in Slots :
       /\ Ready(r)
       /\ req' = [req EXCEPT ![r] = Idle]
       /\ page' = LoadAnalytics([Unmounted EXCEPT !.mounted = TRUE, !.user = user],
                                r, "7days")
  /\ UNCHANGED <<store, now, started, posted>>

\* setSelectedPeriod(period) and the effect of the render that follows
SelectPeriod(period) ==
  /\ page.mounted
  /\ period # page.selectedPeriod
  /\ page.selections < MaxSelections
  /\ \E r \in Slots :
       /\ page.calls[r] = NoCall
       /\ req' = [req EXCEPT ![r] = Idle]
       /\ page' = LoadAnalytics([page EXCEPT !.selectedPeriod = period,
                                             !.selections = @ + 1],
                                r, period)
  /\ UNCHANGED <<store, now, started, posted>>

\* the server handles the request of connection r
AnalyticsCall(r) ==
  /\ page.calls[r] # NoCall
  /\ req[r].pc = "idle"
  /\ IF page.user.role = "doctor"
       THEN GetAggregate(r, SessionToken, page.calls[r].period)
       ELSE GetAnalytics(r, SessionToken, page.user.id, page.calls[r].period)

\* the await of loadAnalytics returns: setAnalyticsData(data) when the
\* response is ok, the catch otherwise, and setLoading(false)
ResponseArrives(r) ==
  /\ page.calls[r] # NoCall
  /\ req[r].pc = "done"
  /\ page' = [page EXCEPT
       !.calls[r] = NoCall,
       !.analyticsData = IF req[r].status = 200 THEN req[r].payload ELSE @,
       !.loading = FALSE,
       !.latestResponse =
          IF page.calls[r].latest
            THEN [status |-> req[r].status, payload |-> req[r].payload]
            ELSE @]
  /\ req' = [req EXCEPT ![r] = Idle]
  /\ UNCHANGED <<store, now, started, posted>>

PageBodies == { Body("p1", 45, NoBP, Undefined, Undefined, "") }

\* readings are posted while the clock moves on, then the page is opened
\* and periods are selected while earlier requests are still on their way
NextPage ==
  \/ \E b \in PageBodies : ~page.mounted /\ PostVitals(1, "u1", b)
  \/ PostVitalsStored(1)
  \/ PostAlertStored(1)
  \/ \E k \in ClockJumps : ~page.mounted /\ Advance(k)
  \/ \E u \in PageUsers : Ready(1) /\ Mount(u)
  \/ \E q \in Periods : SelectPeriod(q)
  \/ \E r \in Slots : AnalyticsCall(r)
  \/ \E r \in Slots : ResponseArrives(r)

SpecPage == Init /\ [][NextPage]_vars

---------------------------------------------------------------------------
(* Vocabulary of the properties *)

IsAlertKey(k) == k.kind = "alert"

IsVitalKey(k) == k.kind = "vitals"

\* slot r holds the 200 response of a POST /vitals
PostCompleted(r) ==
  req[r].pc = "done" /\ req[r].op = "postVitals" /\ req[r].status = 200

\* the alerts array of the POST /vitals answered in slot r
Emitted(r) ==
  IF req[r].payload.alerts = {} THEN << >>
  ELSE CHOOSE a \in req[r].payload.alerts : TRUE

OfType(alerts, type) == SelectSeq(alerts, LAMBDA a : a.type = type)

\* the stored alerts that name the reading vitalId
AlertKeysOf(vitalId) ==
  { k \in DOMAIN store : IsAlertKey(k) /\ store[k].vitalId = vitalId }

OneAlert(alerts, type, severity) ==
  /\ Len(OfType(alerts, type)) = 1
  /\ OfType(alerts, type)[1].severity = severity

---------------------------------------------------------------------------
(* Store consistency under concurrent requests *)

\* C1: every stored Alert names a Reading that is in the store, and the
\* Alert's timestamp is the timestamp of that stored Reading.
C1_AlertNamesStoredReading ==
  \A k \in DOMAIN store :
    IsAlertKey(k) =>
      /\ Has(store, store[k].vitalId)
      /\ store[store[k].vitalId].timestamp = store[k].timestamp

\* C2: a stored Reading is never overwritten: every Reading returned by a
\* completed POST /vitals is in the store under its id with the fields it
\* was created with.
C2_ReadingNeverOverwritten ==
  \A rd \in posted :
    /\ Has(store, rd.id)
    /\ \A f \in DOMAIN rd : store[rd.id][f] = rd[f]

\* C3: Acknowledged is terminal: an alert stored with acknowledged = true is
\* still stored, with acknowledged = true, after every step.
C3_AcknowledgedIsTerminal ==
  [][\A k \in DOMAIN store :
       (IsAlertKey(k) /\ store[k].acknowledged) =>
         (k \in DOMAIN store' /\ store'[k].acknowledged)]_vars

---------------------------------------------------------------------------
(* Threshold classification *)

\* C4: a reading with heartRate = 45 yields exactly one Heart Rate alert, of
\* severity critical.
C4_HeartRate45Critical ==
  \A r \in Slots :
    (PostCompleted(r) /\ req[r].payload.body.heartRate = 45) =>
      OneAlert(Emitted(r), "Heart Rate", "critical")

C7_TemperatureBands ==
  \A r \in Slots :
    (PostCompleted(r) /\ req[r].payload.body.temperature >= 1) =>
      LET t == req[r].payload.body.temperature
          tAlerts == OfType(Emitted(r), "Temperature")
      IN /\ (Len(tAlerts) = 0) <=> (t >= 361 /\ t <= 372)
         /\ OneAlert(Emitted(r), "Temperature", "critical") <=> (t < 350 \/ t > 385)
         /\ (~(t >= 361 /\ t <= 372) /\ ~(t < 350 \/ t > 385)) =>
              OneAlert(Emitted(r), "Temperature", "warning")

C7_Witness ==
  \E r \in Slots :
    /\ PostCompleted(r)
    /\ req[r].payload.body.temperature = 390
    /\ OneAlert(Emitted(r), "Temperature", "critical")
    /\ Len(Emitted(r)) = 1

\* a vital of the body that is present and outside its normal band
HeartRateAbnormal(b) ==
  b.heartRate # Undefined /\ ~(b.heartRate >= 60 /\ b.heartRate <= 100)

OxygenAbnormal(b) == b.oxygenLevel # Undefined /\ ~(b.oxygenLevel >= 95)

TemperatureAbnormal(b) ==
  b.temperature # Undefined /\ ~(b.temperature >= 361 /\ b.temperature <= 372)

BloodPressureAbnormal(b) ==
  b.bloodPressure # NoBP /\ ~BloodPressureNormal(b.bloodPressure)

AlertCount(alerts, type, abnormal) ==
  Len(OfType(alerts, type)) = (IF abnormal THEN 1 ELSE 0)

\* C8: the alerts of one POST /vitals hold exactly one alert for each present
\* abnormal vital and none for the others, so at most one per vital type, and
\* each is stored under its own key.
C8_OneAlertPerAbnormalVital ==
  \A r \in Slots :
    PostCompleted(r) =>
      LET b == req[r].payload.body
          alerts == Emitted(r)
      IN /\ AlertCount(alerts, "Heart Rate", HeartRateAbnormal(b))
         /\ AlertCount(alerts, "Oxygen Level", OxygenAbnormal(b))
         /\ AlertCount(alerts, "Temperature", TemperatureAbnormal(b))
         /\ AlertCount(alerts, "Blood Pressure", BloodPressureAbnormal(b))
         /\ Cardinality(AlertKeysOf(req[r].payload.vitalReading.id)) = Len(alerts)

\* C9: a present blood pressure outside 90..120 / 60..80 yields exactly one
\* Blood Pressure alert of severity warning; one inside the band yields none.
C9_BloodPressureWarning ==
  \A r \in Slots :
    (PostCompleted(r) /\ req[r].payload.body.bloodPressure # NoBP) =>
      LET b == req[r].payload.body IN
        IF BloodPressureAbnormal(b)
          THEN OneAlert(Emitted(r), "Blood Pressure", "warning")
          ELSE Len(OfType(Emitted(r), "Blood Pressure")) = 0

\* C10: a reading that carries heartRate = 0 or oxygenLevel = 0 is classified
\* (a critical alert for that vital) and the Reading stores the value 0.
C10_ZeroIsClassified ==
  \A r \in Slots :
    PostCompleted(r) =>
      LET b == req[r].payload.body
          rd == req[r].payload.vitalReading
      IN /\ b.heartRate = 0 =>
              (OneAlert(Emitted(r), "Heart Rate", "critical") /\ rd.heartRate = 0)
         /\ b.oxygenLevel = 0 =>
              (OneAlert(Emitted(r), "Oxygen Level", "critical") /\ rd.oxygenLevel = 0)

---------------------------------------------------------------------------
(* Responses of POST /vitals *)

\* every present vital of the body is inside its normal band
AllPresentVitalsNormal(b) ==
  /\ ~HeartRateAbnormal(b)
  /\ ~OxygenAbnormal(b)
  /\ ~TemperatureAbnormal(b)
  /\ ~BloodPressureAbnormal(b)

\* C11: a reading whose present vitals are all normal is stored, stores no
\* Alert and is answered with alerts = null; and the answer's alerts is null
\* iff no Alert is stored for the reading.
C11_NormalReadingNoAlerts ==
  \A r \in Slots :
    PostCompleted(r) =>
      LET b == req[r].payload.body
          rd == req[r].payload.vitalReading
      IN /\ AllPresentVitalsNormal(b) =>
              /\ Has(store, rd.id) /\ store[rd.id] = rd
              /\ AlertKeysOf(rd.id) = {}
              /\ req[r].payload.alerts = {}
         /\ (req[r].payload.alerts = {}) <=> (AlertKeysOf(rd.id) = {})

C11_Witness ==
  \E r \in Slots :
    /\ PostCompleted(r)
    /\ req[r].payload.body.heartRate = 60
    /\ req[r].payload.body.oxygenLevel = 95
    /\ req[r].payload.body.temperature = 372
    /\ req[r].payload.body.bloodPressure = <<120, 80>>
    /\ req[r].payload.alerts = {}
    /\ Has(store, req[r].payload.vitalReading.id)

---------------------------------------------------------------------------
(* Alert lifecycle *)

\* slot r holds the 200 response of an acknowledge
AckCompleted(r) ==
  req[r].pc = "done" /\ req[r].op = "acknowledge" /\ req[r].status = 200

\* the fields of an Alert that acknowledge must leave alone
AlertCreationFields ==
  {"id", "patientId", "vitalId", "type", "severity", "value", "message",
   "timestamp"}

C13_AckOnlyMutatesAlerts ==
  [][\A r \in Slots :
       /\ (AcknowledgeRead(r) /\ Has(store, req[r].alertId)
            /\ ~IsAlertKey(req[r].alertId)) =>
             /\ req'[r].pc = "done"
             /\ req'[r].status = 404
             /\ store' = store
       /\ AcknowledgeStored(r) =>
             \A k \in DOMAIN store : ~IsAlertKey(k) => store'[k] = store[k]]_vars

\* C14: when the write of an acknowledge completes, the stored alert is the
\* alert that call answers: acknowledged = true, acknowledgedBy the call's
\* user and acknowledgedAt the call's instant, whatever an earlier call wrote.
C14_LastAcknowledgeWins ==
  [][\A r \in Slots :
       (AcknowledgeStored(r) /\ IsAlertKey(req[r].alertId)) =>
         LET k == req[r].alertId IN
           /\ AckCompleted(r)'
           /\ store'[k] = req'[r].payload.alert
           /\ store'[k].acknowledged
           /\ store'[k].acknowledgedBy = req[r].user
           /\ store'[k].acknowledgedAt = req[r].updatedAlert.acknowledgedAt]_vars

\* both slots answered an acknowledge of the same alert, by different users at
\* different instants, and the store holds the answer of one of them
C14_Witness ==
  /\ \A r \in Slots : AckCompleted(r) /\ IsAlertKey(req[r].payload.alert.id)
  /\ req[1].payload.alert.id = req[2].payload.alert.id
  /\ req[1].payload.alert.acknowledgedBy # req[2].payload.alert.acknowledgedBy
  /\ req[1].payload.alert.acknowledgedAt # req[2].payload.alert.acknowledgedAt
  /\ store[req[1].payload.alert.id] = req[1].payload.alert

\* C15: the write of an acknowledge changes no key but its target, and leaves
\* the target alert's id, patientId, vitalId, type, severity, value, message
\* and timestamp as they were.
C15_AckChangesOnlyAckFields ==
  [][\A r \in Slots :
       (AcknowledgeStored(r) /\ IsAlertKey(req[r].alertId)) =>
         LET k == req[r].alertId IN
           /\ \A f \in AlertCreationFields : store'[k][f] = store[k][f]
           /\ \A k2 \in DOMAIN store : k2 # k => store'[k2] = store[k2]
           /\ DOMAIN store' = DOMAIN store]_vars

---------------------------------------------------------------------------
(* The lists read back *)

Range(list) == { list[i] : i \in 1..Len(list) }

\* the alerts in the store that name the patient
PatientAlerts(patientId) ==
  { store[k] : k \in { x \in DOMAIN store :
                         IsAlertKey(x) /\ store[x].patientId = patientId } }

\* the readings in the store that name the patient
PatientReadings(patientId) ==
  { store[k] : k \in { x \in DOMAIN store :
                         IsVitalKey(x) /\ store[x].patientId = patientId } }

\* newest first
Descending(list) ==
  \A i, j \in 1..Len(list) : i < j => list[i].timestamp >= list[j].timestamp

\* slot 1 holds the 200 response of a GET /alerts/<segment>
AlertsAnswered ==
  req[1].pc = "done" /\ req[1].op = "getAlerts" /\ req[1].status = 200

\* C16: GET /alerts/all is handled by the all-patients handler, not by
\* GET /alerts/:patientId with patientId = 'all', and returns every stored
\* alert of every patient, each with patientName, patientAge and patientEmail.
C16_AlertsAllReturnsEveryAlert ==
  (AlertsAnswered /\ req[1].payload.segment = "all") =>
    LET alerts == req[1].payload.alerts
        stored == { k \in DOMAIN store : IsAlertKey(k) }
    IN /\ req[1].payload.handler = "getAllAlerts"
       /\ Len(alerts) = Cardinality(stored)
       /\ \A k \in stored :
            \E i \in 1..Len(alerts) :
              /\ alerts[i].id = store[k].id
              /\ {"patientName", "patientAge", "patientEmail"}
                   \subseteq DOMAIN alerts[i]

\* C17: GET /alerts/:patientId returns exactly the stored alerts whose
\* patientId is the path parameter, each once, none of another patient and
\* none missing, ordered by descending timestamp.
C17_PatientAlertsNewestFirst ==
  (AlertsAnswered /\ req[1].payload.handler = "getAlerts") =>
    LET alerts == req[1].payload.alerts
        mine == PatientAlerts(req[1].payload.segment)
    IN /\ Range(alerts) = mine
       /\ Len(alerts) = Cardinality(mine)
       /\ Descending(alerts)

\* the three stored alerts of p1, with timestamps T1 < T2 < T3, are returned
\* as [T3, T2, T1]
C17_Witness ==
  /\ AlertsAnswered
  /\ req[1].payload.segment = "p1"
  /\ Len(req[1].payload.alerts) = 3
  /\ req[1].payload.alerts[1].timestamp > req[1].payload.alerts[2].timestamp
  /\ req[1].payload.alerts[2].timestamp > req[1].payload.alerts[3].timestamp
  /\ Cardinality(PatientAlerts("p1")) = 3

\* the step answers a GET /vitals/:patientId in slot r with 200
VitalsAnswered(r) ==
  /\ Ready(r)
  /\ req'[r] # req[r]
  /\ req'[r].pc = "done"
  /\ req'[r].op = "getVitals"
  /\ req'[r].status = 200

\* C18: GET /vitals/:patientId?limit=N returns the min(N, count) most recent
\* stored readings of the patient and only of the patient, newest first, with
\* N = 50 when no limit is given; the patient's newest reading whose POST has
\* completed is the first element for every N >= 1.
C18_VitalsNewestFirstUpToLimit ==
  [][\A r \in Slots :
       VitalsAnswered(r) =>
         LET vitals == req'[r].payload.vitals
             patientId == req'[r].payload.patientId
             N == IF req'[r].payload.limit = Undefined
                    THEN 50 ELSE req'[r].payload.limit
             mine == PatientReadings(patientId)
             count == Cardinality(mine)
             completed == { v \in posted : v.patientId = patientId }
         IN /\ Len(vitals) = IF N < count THEN N ELSE count
            /\ Range(vitals) \subseteq mine
            /\ Cardinality(Range(vitals)) = Len(vitals)
            /\ Descending(vitals)
            /\ \A v \in mine \ Range(vitals), w \in Range(vitals) :
                 v.timestamp <= w.timestamp
            /\ \A v \in completed :
                 (N >= 1 /\ \A w \in completed \ {v} : w.timestamp < v.timestamp)
                   => (Len(vitals) >= 1 /\ vitals[1] = v)]_vars

---------------------------------------------------------------------------
(* The analytics of a period *)

AnalyticsOps == {"getAnalytics", "getAggregate"}

\* slot 1 holds the 200 response of an analytics request
AnalyticsAnswered ==
  req[1].pc = "done" /\ req[1].op \in AnalyticsOps /\ req[1].status = 200

\* the stored values of a kind in the scope of the analytics request answered
\* in slot 1: those of its patient, or those of every patient
InScope(kind) ==
  { store[k] : k \in { x \in DOMAIN store :
       /\ x.kind = kind
       /\ req[1].op = "getAnalytics" =>
            store[x].patientId = req[1].payload.patientId } }

Since(S, t) == { x \in S : x.timestamp >= t }

\* the length of a recognised period, in ticks
PeriodTicks(period) ==
  CASE period = "7days"   -> 7 * TicksPerDay
    [] period = "30days"  -> 30 * TicksPerDay
    [] period = "3months" -> 3 * TicksPerMonth
    [] period = "1year"   -> TicksPerYear

\* C19: for a recognised period, the per-patient and the all-patients
\* analytics return exactly the stored readings and alerts in scope whose
\* timestamp >= now - period, now being a reading of the clock by the
\* request, and totalReadings and totalAlerts count exactly what is returned.
C19_RecognisedPeriodFilters ==
  (AnalyticsAnswered /\ req[1].payload.period \in Periods) =>
    LET answer == req[1].payload IN
      /\ \E nowRead \in Range(answer.clock) :
           LET cutoff == nowRead - PeriodTicks(answer.period) IN
             /\ Range(answer.vitals) = Since(InScope("vitals"), cutoff)
             /\ Range(answer.alerts) = Since(InScope("alert"), cutoff)
      /\ Len(answer.vitals) = Cardinality(Range(answer.vitals))
      /\ Len(answer.alerts) = Cardinality(Range(answer.alerts))
      /\ answer.stats.totalReadings = Len(answer.vitals)
      /\ answer.stats.totalAlerts = Len(answer.alerts)

\* C20: an analytics request with an unrecognised period is answered without
\* an error and without time filtering: every stored reading and alert in
\* scope is returned and counted in stats.
C20_UnknownPeriodNoFilter ==
  ( /\ req[1].pc = "done"
    /\ req[1].op \in AnalyticsOps
    /\ "period" \in DOMAIN req[1].payload
    /\ req[1].payload.period = UnknownPeriod ) =>
    LET answer == req[1].payload IN
      /\ req[1].status = 200
      /\ Range(answer.vitals) = InScope("vitals")
      /\ Range(answer.alerts) = InScope("alert")
      /\ answer.stats.totalReadings = Cardinality(InScope("vitals"))
      /\ answer.stats.totalAlerts = Cardinality(InScope("alert"))

---------------------------------------------------------------------------
(* The statistics of an analytics answer *)

\* slot 1 holds the 200 response of GET /analytics/:patientId
PatientAnalyticsAnswered == AnalyticsAnswered /\ req[1].op = "getAnalytics"

\* slot 1 holds the 200 response of GET /analytics/aggregate/all
AggregateAnswered == AnalyticsAnswered /\ req[1].op = "getAggregate"

\* every present vital of the stored reading is inside its normal band, the
\* blood pressure included
EveryPresentVitalInBand(v) ==
  /\ v.heartRate = Null \/ (v.heartRate >= 60 /\ v.heartRate <= 100)
  /\ v.oxygenLevel = Null \/ v.oxygenLevel >= 95
  /\ v.temperature = Null \/ (v.temperature >= 361 /\ v.temperature <= 372)
  /\ v.bloodPressure = NoBP
       \/ ( /\ v.bloodPressure[1] >= 90 /\ v.bloodPressure[1] <= 120
            /\ v.bloodPressure[2] >= 60 /\ v.bloodPressure[2] <= 80 )

\* the positions of the list
Indices(list) == 1..Len(list)

\* C21: normalReadings is the number of returned readings in which every
\* present vital, blood pressure included, is inside its normal band; a
\* reading with no vitals counts, a reading whose only vital is a blood
\* pressure out of its band does not.
C21_NormalReadingsCountsBands ==
  PatientAnalyticsAnswered =>
    LET answer == req[1].payload IN
      answer.stats.normalReadings =
        Cardinality({ i \in Indices(answer.vitals) :
                        EveryPresentVitalInBand(answer.vitals[i]) })

RECURSIVE TotalOf(_, _)
\* the sum of the field over the readings of the list that have it
TotalOf(list, field) ==
  IF list = << >> THEN 0
  ELSE (IF Head(list)[field] = Null THEN 0 ELSE Head(list)[field])
       + TotalOf(Tail(list), field)

\* the number of readings of the list that have the field
PresentCount(list, field) ==
  Cardinality({ i \in Indices(list) : list[i][field] # Null })

\* avg is 0 without a reading that has the field, and otherwise an integer
\* nearest to the mean of the field over the readings that have it
IsRoundedMean(avg, list, field) ==
  LET n == PresentCount(list, field)
      d == 2 * avg * n - 2 * TotalOf(list, field)
  IN IF n = 0 THEN avg = 0 ELSE d >= -n /\ d <= n

\* C22: avgHeartRate and avgOxygenLevel are the rounded arithmetic means over
\* exactly the returned readings that have the field, 0 when none has it, and
\* the readings without the field still count in totalReadings.
C22_AveragesOverPresentFields ==
  AggregateAnswered =>
    LET answer == req[1].payload IN
      /\ IsRoundedMean(answer.stats.avgHeartRate, answer.vitals, "heartRate")
      /\ IsRoundedMean(answer.stats.avgOxygenLevel, answer.vitals, "oxygenLevel")
      /\ answer.stats.totalReadings = Len(answer.vitals)

\* readings with heartRate 60, 100 and absent give avgHeartRate = 80 and
\* totalReadings = 3
C22_Witness ==
  /\ AggregateAnswered
  /\ req[1].payload.stats.avgHeartRate = 80
  /\ req[1].payload.stats.totalReadings = 3
  /\ { req[1].payload.vitals[i].heartRate : i \in Indices(req[1].payload.vitals) }
       = {60, 100, Null}

\* the statistics that both analytics answers are to carry
CommonStats ==
  {"totalReadings", "normalReadings", "totalAlerts", "criticalAlerts",
   "warningAlerts", "avgHeartRate", "avgOxygenLevel"}

\* the stored profiles with role 'patient'
StoredPatients ==
  { k \in DOMAIN store : k.kind = "profile" /\ store[k].role = "patient" }

\* C23: the per-patient and the all-patients analytics carry the same
\* statistics (totalReadings, normalReadings, totalAlerts, criticalAlerts,
\* warningAlerts, avgHeartRate, avgOxygenLevel) over the returned readings and
\* alerts, and the all-patients answer also totalPatients, the number of
\* profiles with role 'patient'.
C23_SameStatsForOneAndAll ==
  AnalyticsAnswered =>
    LET answer == req[1].payload
        stats == answer.stats
    IN /\ CommonStats \subseteq DOMAIN stats
       /\ stats.totalReadings = Len(answer.vitals)
       /\ stats.totalAlerts = Len(answer.alerts)
       /\ IsRoundedMean(stats.avgHeartRate, answer.vitals, "heartRate")
       /\ IsRoundedMean(stats.avgOxygenLevel, answer.vitals, "oxygenLevel")
       /\ AggregateAnswered =>
            stats.totalPatients = Cardinality(StoredPatients)

---------------------------------------------------------------------------
(* Requests without a valid credential *)

\* the step takes in slot 1 a request to a vitals, alerts or analytics
\* endpoint that carries the Authorization header h
RequestTaken(h) ==
  /\ Ready(1)
  /\ \/ \E b \in QueryBodies : PostVitals(1, h, b)
     \/ Acknowledge(1, h)
     \/ \E p \in Patients, l \in LimitQueries : GetVitals(1, h, p, l)
     \/ \E g \in AlertSegments : GetAlerts(1, h, g)
     \/ \E p \in Patients, q \in PeriodQueries : GetAnalytics(1, h, p, q)
     \/ \E q \in PeriodQueries : GetAggregate(1, h, q)

\* the step answers in slot 1 with status 401 and a body {error}, and leaves
\* the store as it was
RefusedStep ==
  /\ req'[1].pc = "done"
  /\ req'[1].status = 401
  /\ DOMAIN req'[1].payload = {"error"}
  /\ store' = store

\* C24: a request to a vitals, alerts or analytics endpoint with no credential
\* or an invalid one is answered at once with status 401 and a body {error},
\* and the store is left as it was: a step either refuses, or takes no
\* request of that kind.
C24_UnauthenticatedIsRefused ==
  [][\A h \in Unauthenticated : RefusedStep \/ ~RequestTaken(h)]_vars

\* an acknowledge without a valid credential is refused while an alert that
\* is not acknowledged is stored
C24_Witness ==
  /\ req[1].pc = "done"
  /\ req[1].op = "acknowledge"
  /\ req[1].status = 401
  /\ \E k \in DOMAIN store : IsAlertKey(k) /\ ~store[k].acknowledged

---------------------------------------------------------------------------
(* Validation of POST /vitals *)

\* the step answers in slot r with status 400 and a body {error}, and leaves
\* the store as it was
RejectedStep(r) ==
  /\ req'[r].pc = "done"
  /\ req'[r].status = 400
  /\ DOMAIN req'[r].payload = {"error"}
  /\ store' = store

\* C25: a POST /vitals of a user without a patientId is answered at once with
\* status 400 and a body {error}, before anything is persisted: the request
\* writes neither a reading nor an alert.
C25_MissingPatientIdIsRejected ==
  [][\A r \in Slots, h \in Users, b \in Bodies :
       (b.patientId = "" /\ PostVitals(r, h, b)) => RejectedStep(r)]_vars

\* a POST /vitals without a patientId is rejected while readings are stored
C25_Witness ==
  \E r \in Slots :
    /\ req[r].pc = "done"
    /\ req[r].op = "postVitals"
    /\ req[r].status = 400
    /\ \E k \in DOMAIN store : IsVitalKey(k)

---------------------------------------------------------------------------
(* The all-patients alert view *)

\* the ids of the stored profiles with role 'patient'
Roster == { store[k].id : k \in StoredPatients }

\* C26: the all-patients alert view returns as many alerts as are stored,
\* whatever the roster contains, and an alert whose patientId is not that of
\* a profile with role 'patient' carries patientName = 'Unknown Patient',
\* patientAge = null and patientEmail = null.
C26_UnknownPatientPlaceholders ==
  (AlertsAnswered /\ req[1].payload.segment = "all") =>
    LET alerts == req[1].payload.alerts IN
      /\ Len(alerts) = Cardinality({ k \in DOMAIN store : IsAlertKey(k) })
      /\ \A i \in Indices(alerts) :
           alerts[i].patientId \notin Roster =>
             /\ alerts[i].patientName = "Unknown Patient"
             /\ alerts[i].patientAge = Null
             /\ alerts[i].patientEmail = NullText

---------------------------------------------------------------------------
(* The AddReading form *)

\* the body carries one of the four vitals
CarriesVital(body) ==
  \/ body.heartRate # Undefined
  \/ body.bloodPressure # NoBP
  \/ body.oxygenLevel # Undefined
  \/ body.temperature # Undefined

\* C27: every reading the AddReading form sends to POST /vitals carries at
\* least one of heartRate, bloodPressure, oxygenLevel and temperature,
\* whatever fields of the form are filled.
C27_FormSendsAtLeastOneVital ==
  \A r \in Slots : req[r].pc = "setVital" => CarriesVital(req[r].body)

---------------------------------------------------------------------------
(* The aggregator against the classifier *)

\* an alert in the store names the reading
HasStoredAlert(v) ==
  \E k \in DOMAIN store : IsAlertKey(k) /\ store[k].vitalId = v.id

\* C28: the aggregator and the classifier agree on every stored reading: in
\* the window of a per-patient analytics answer, normalReadings is
\* totalReadings minus the number of returned readings that have at least
\* one stored alert.
C28_NormalIffNoStoredAlert ==
  PatientAnalyticsAnswered =>
    LET answer == req[1].payload IN
      answer.stats.normalReadings =
        answer.stats.totalReadings
          - Cardinality({ i \in Indices(answer.vitals) :
                            HasStoredAlert(answer.vitals[i]) })

---------------------------------------------------------------------------
(* The arithmetic of the statistics *)

\* C29: in every analytics answer, per patient or for all patients,
\* totalAlerts = criticalAlerts + warningAlerts and normalReadings is
\* reported with 0 <= normalReadings <= totalReadings, after any sequence of
\* ingestions and acknowledgements.
C29_StatsAddUp ==
  AnalyticsAnswered =>
    LET stats == req[1].payload.stats IN
      /\ stats.totalAlerts = stats.criticalAlerts + stats.warningAlerts
      /\ "normalReadings" \in DOMAIN stats
      /\ 0 <= stats.normalReadings
      /\ stats.normalReadings <= stats.totalReadings

---------------------------------------------------------------------------
(* The Analytics page *)

\* what the page draws from a response
Shown(data) ==
  [vitals |-> data.vitals, alerts |-> data.alerts, stats |-> data.stats]

\* no call of loadAnalytics is outstanding
NoneOutstanding == \A r \in Slots : page.calls[r] = NoCall

\* C30: once every outstanding analytics request has completed, the page
\* displays the response to the request of the currently selected period
\* (when that request succeeded): the late response to an earlier selection
\* never replaces it.
C30_LatestSelectionDisplayed ==
  (page.mounted /\ NoneOutstanding /\ page.latestResponse.status = 200) =>
    Shown(page.analyticsData) = Shown(page.latestResponse.payload)
====
